---- MODULE Spec2Model ----
(***************************************************************************)
(* Model of scripts/openclaw_migrate.py: the OpenClaw -> Nexus memory      *)
(* migration tool.  main() creates the destination directories and runs    *)
(* three passes in sequence: migrate_code_chunks, migrate_conversations    *)
(* and extract_personality.  The state is the source artifacts (database,  *)
(* sessions directory, configuration file), the destination file system,   *)
(* and the position and locals of the running pass.                        *)
(*                                                                         *)
(* Python values are modelled as follows.  A str is a TLA+ string.  None   *)
(* in a position that otherwise holds a str is the token None.  A value    *)
(* produced by json.loads is a record with a field k naming its JSON type  *)
(* and one field per type holding the payload.                             *)
(***************************************************************************)
EXTENDS Integers, Sequences, FiniteSets, TLC

\* ------------------------------------------------------------------ bounds
\* number of chunk identifiers a database may hold
MaxChunks == 2
\* number of lines of the session log s1.jsonl
MaxLines == 2
\* number of times the tool is run in succession on unchanged sources
MaxRuns == 2

\* -------------------------------------------------------------------- state
VARIABLES
  db,                \* main.sqlite: [state, rows]
  sessions,          \* the sessions directory: [exists, listing, lines]
  config,            \* openclaw.json: [exists, text]
  clock,             \* the UTC clock
  fs,                \* destination files under <nexus>/memory: path -> document
  dirs,              \* destination directories that exist
  pc,                \* position of the run
  order,             \* the passes the run makes, in order
  todo,              \* the passes still to start
  run,               \* number of the current run
  rows_left,         \* rows of cursor.fetchall() not iterated yet
  migrated,          \* local of migrate_code_chunks
  migrated_chunks,   \* main's migrated_chunks, -1 while unbound
  sess_left,         \* session files not iterated yet
  session_file,      \* the open session log
  idx,               \* enumerate() position in the open log
  total_messages,    \* local of migrate_conversations
  migrated_messages, \* main's migrated_messages, -1 while unbound
  exit_status,       \* process exit status, -1 while running
  written,           \* paths opened for writing so far
  opened,            \* source files opened for reading so far
  snap               \* destination files as the previous run left them

vars ==
  <<db, sessions, config, clock, fs, dirs, pc, order, todo, run, rows_left, migrated,
    migrated_chunks, sess_left, session_file, idx, total_messages, migrated_messages,
    exit_status, written, opened, snap>>

sources == <<db, sessions, config>>
chunk_locals == <<rows_left, migrated, migrated_chunks>>
conv_locals == <<sess_left, session_file, idx, total_messages, migrated_messages>>

\* ------------------------------------------------------------ Python values
None == "<None>"
\* marks a key that a JSON object does not have
NoKey == "<absent>"

\* json.loads raised
JErr == [ok |-> FALSE, k |-> "error", list |-> <<>>, num |-> 0, keys |-> {}, str |-> ""]
JList(l) == [ok |-> TRUE, k |-> "list", list |-> l, num |-> 0, keys |-> {}, str |-> ""]
JNum(n) == [ok |-> TRUE, k |-> "num", list |-> <<>>, num |-> n, keys |-> {}, str |-> ""]
JDict(ks) == [ok |-> TRUE, k |-> "dict", list |-> <<>>, num |-> 0, keys |-> ks, str |-> ""]
JNull == [ok |-> TRUE, k |-> "null", list |-> <<>>, num |-> 0, keys |-> {}, str |-> ""]
JStr(s) == [ok |-> TRUE, k |-> "str", list |-> <<>>, num |-> 0, keys |-> {}, str |-> s]

\* Python truth value of a deserialized value (`not embedding_list`)
Truthy(v) ==
  CASE v.k = "list" -> Len(v.list) > 0
    [] v.k = "num" -> v.num # 0
    [] v.k = "dict" -> v.keys # {}
    [] v.k = "str" -> v.str # ""
    [] OTHER -> FALSE

\* ------------------------------------------------------- the chunk database
\* The serialized embedding column: NULL, or a text.
EmbeddingTexts ==
  {None, "", "oops", "[]", "null", "[1,2]", "[3]", "7", "{\"k\":1}"}

\* json.loads on an embedding text
json_loads_embedding(s) ==
  CASE s = "[]" -> JList(<<>>)
    [] s = "[1,2]" -> JList(<<1, 2>>)
    [] s = "[3]" -> JList(<<3>>)
    [] s = "7" -> JNum(7)
    [] s = "null" -> JNull
    [] s = "{\"k\":1}" -> JDict({"k"})
    [] OTHER -> JErr

\* the other columns of a row come in two flavours, every column distinct
RowProfiles == {1, 2}

ChunkRowOf(id, p, emb) ==
  [id |-> id,
   path |-> IF p = 1 THEN "a.py" ELSE "b.py",
   source |-> IF p = 1 THEN "memory" ELSE "sessions",
   start_line |-> IF p = 1 THEN 1 ELSE 10,
   end_line |-> IF p = 1 THEN 5 ELSE 20,
   hash |-> IF p = 1 THEN "h1" ELSE "h2",
   model |-> IF p = 1 THEN "m1" ELSE "m2",
   text |-> IF p = 1 THEN "def f()" ELSE "class C",
   embedding |-> emb,
   updated_at |-> IF p = 1 THEN 111 ELSE 222]

ChunkIds == 1..MaxChunks

\* the rows of table chunks: id is the table's key, so at most one row per id
RowSets ==
  {{ChunkRowOf(i, f[i][1], f[i][2]) : i \in S} :
     f \in [ChunkIds -> RowProfiles \X EmbeddingTexts], S \in SUBSET ChunkIds}

\* --------------------------------------------------------------- str helpers
\* sub in s, for Python strs
Contains(s, sub) ==
  \E i \in 1..(Len(s) - Len(sub) + 1) : SubSeq(s, i, i + Len(sub) - 1) = sub

\* s.endswith(suf)
EndsWith(s, suf) ==
  Len(s) >= Len(suf) /\ SubSeq(s, Len(s) - Len(suf) + 1, Len(s)) = suf

\* fnmatch of the pattern "*.jsonl" (Path.glob)
GlobJsonl(name) == EndsWith(name, ".jsonl")

\* pathlib's PurePath.stem: the name up to its last dot, when that dot is
\* neither the first nor the last character
Stem(name) ==
  LET dots == {i \in 1..Len(name) : SubSeq(name, i, i) = "."}
      last == IF dots = {} THEN 0 ELSE CHOOSE i \in dots : \A j \in dots : j <= i
  IN IF 1 < last /\ last < Len(name) THEN SubSeq(name, 1, last - 1) ELSE name

\* ------------------------------------------------------------- session logs
\* one content part of a message
PText(t) == [k |-> "dict", type |-> "text", hasText |-> TRUE, textIsStr |-> TRUE, text |-> t]
PTextNum == [k |-> "dict", type |-> "text", hasText |-> TRUE, textIsStr |-> FALSE, text |-> ""]
PNoText == [k |-> "dict", type |-> "text", hasText |-> FALSE, textIsStr |-> FALSE, text |-> ""]
POther == [k |-> "dict", type |-> "other", hasText |-> FALSE, textIsStr |-> FALSE, text |-> ""]
PStr == [k |-> "str", type |-> NoKey, hasText |-> FALSE, textIsStr |-> FALSE, text |-> ""]

\* the value under "content"
CStr(s) == [k |-> "str", str |-> s, num |-> 0, parts |-> <<>>]
CNum(n) == [k |-> "num", str |-> "", num |-> n, parts |-> <<>>]
CList(ps) == [k |-> "list", str |-> "", num |-> 0, parts |-> ps]
CNone == CStr("")

\* the value under "message"
InnerDict(ks, role, content) ==
  [k |-> "dict", keys |-> ks, str |-> "", role |-> role, content |-> content]
InnerStr(s) == [k |-> "str", keys |-> {}, str |-> s, role |-> None, content |-> CNone]
InnerNone == [k |-> "none", keys |-> {}, str |-> "", role |-> None, content |-> CNone]

\* a parsed line
MErr == [ok |-> FALSE, k |-> "error", keys |-> {}, type |-> None, timestamp |-> NoKey,
         inner |-> InnerNone]
MNum == [ok |-> TRUE, k |-> "num", keys |-> {}, type |-> None, timestamp |-> NoKey,
         inner |-> InnerNone]
MDict(ks, type, ts, inner) ==
  [ok |-> TRUE, k |-> "dict", keys |-> ks, type |-> type, timestamp |-> ts, inner |-> inner]

L_garbage == "not json"
L_number == "42"
L_ping == "{\"type\":\"ping\"}"
L_nomsg == "{\"type\":\"message\"}"
L_norole == "{\"type\":\"message\",\"message\":{\"content\":\"x\"}}"
L_strmsg == "{\"type\":\"message\",\"message\":\"role content\"}"
L_hi == "{\"type\":\"message\",\"timestamp\":\"t1\",\"message\":{\"role\":\"user\",\"content\":\"hi\"}}"
L_parts == "{\"type\":\"message\",\"message\":{\"role\":\"assistant\",\"content\":[{\"type\":\"text\",\"text\":\"a\"},{\"type\":\"other\"},{\"type\":\"text\",\"text\":\"b\"}]}}"
L_num == "{\"type\":\"message\",\"message\":{\"role\":\"tool\",\"content\":5}}"
L_mixed == "{\"type\":\"message\",\"message\":{\"role\":\"system\",\"content\":[{\"type\":\"text\"},\"x\",{\"type\":\"text\",\"text\":\"b\"}]}}"
L_badtext == "{\"type\":\"message\",\"message\":{\"role\":\"user\",\"content\":[{\"type\":\"text\",\"text\":7}]}}"
L_empty == "{\"type\":\"message\",\"message\":{\"role\":\"nobody\",\"content\":[]}}"

LineTexts ==
  {L_garbage, L_number, L_ping, L_nomsg, L_norole, L_strmsg, L_hi, L_parts, L_num,
   L_mixed, L_badtext, L_empty}

\* json.loads on a line of a session log
json_loads_line(line) ==
  CASE line = L_number -> MNum
    [] line = L_ping -> MDict({"type"}, "ping", NoKey, InnerNone)
    [] line = L_nomsg -> MDict({"type"}, "message", NoKey, InnerNone)
    [] line = L_norole ->
         MDict({"type", "message"}, "message", NoKey, InnerDict({"content"}, None, CStr("x")))
    [] line = L_strmsg ->
         MDict({"type", "message"}, "message", NoKey, InnerStr("role content"))
    [] line = L_hi ->
         MDict({"type", "timestamp", "message"}, "message", "t1",
               InnerDict({"role", "content"}, "user", CStr("hi")))
    [] line = L_parts ->
         MDict({"type", "message"}, "message", NoKey,
               InnerDict({"role", "content"}, "assistant",
                         CList(<<PText("a"), POther, PText("b")>>)))
    [] line = L_num ->
         MDict({"type", "message"}, "message", NoKey,
               InnerDict({"role", "content"}, "tool", CNum(5)))
    [] line = L_mixed ->
         MDict({"type", "message"}, "message", NoKey,
               InnerDict({"role", "content"}, "system",
                         CList(<<PNoText, PStr, PText("b")>>)))
    [] line = L_badtext ->
         MDict({"type", "message"}, "message", NoKey,
               InnerDict({"role", "content"}, "user", CList(<<PTextNum>>)))
    [] line = L_empty ->
         MDict({"type", "message"}, "message", NoKey,
               InnerDict({"role", "content"}, "nobody", CList(<<>>)))
    [] OTHER -> MErr

\* ------------------------------------------------- the conversation filters
\* `key in inner_msg`: a key test on a dict, a substring test on a str
InnerHas(inner, key) ==
  IF inner.k = "dict" THEN key \in inner.keys ELSE Contains(inner.str, key)

\* " ".join(parts)
RECURSIVE SpaceJoin(_)
SpaceJoin(ts) ==
  IF ts = <<>> THEN ""
  ELSE IF Len(ts) = 1 THEN ts[1]
  ELSE ts[1] \o " " \o SpaceJoin(Tail(ts))

\* IsTextPart without the test of the part's type
IsDictPart(part) == part.k = "dict"

\* the parts the comprehension keeps: dicts whose type is "text"
IsTextPart(part) == part.k = "dict" /\ part.type = "text"

TextParts(parts) == SelectSeq(parts, IsTextPart)

\* part.get("text", "")
PartText(part) == IF part.hasText THEN part.text ELSE ""

\* str(content_parts) for content that is no list
py_str(c) == IF c.k = "num" THEN ToString(c.num) ELSE c.str

\* text_content of lines 139-146
text_content(c) ==
  IF c.k = "list"
  THEN SpaceJoin([i \in 1..Len(TextParts(c.parts)) |-> PartText(TextParts(c.parts)[i])])
  ELSE py_str(c)

\* what the loop body does with one line: "skip" (continue), "raise" (an
\* exception no handler of the program catches) or "emit" (an event is written)
LineOutcome(line) ==
  LET msg == json_loads_line(line)
      inner == msg.inner
  IN IF ~msg.ok THEN "skip"
     ELSE IF msg.k # "dict" THEN "raise"
     ELSE IF msg.type # "message" \/ "message" \notin msg.keys THEN "skip"
     ELSE IF inner.k \notin {"dict", "str"} THEN "raise"
     ELSE IF ~InnerHas(inner, "role") \/ ~InnerHas(inner, "content") THEN "skip"
     ELSE IF inner.k # "dict" THEN "raise"
     ELSE IF inner.content.k = "list"
             /\ \E i \in 1..Len(inner.content.parts) :
                  /\ IsTextPart(inner.content.parts[i])
                  /\ inner.content.parts[i].hasText
                  /\ ~inner.content.parts[i].textIsStr
          THEN "raise"
     ELSE "emit"

\* the event of lines 148-156
EventOf(line, session_id, i) ==
  LET msg == json_loads_line(line)
  IN [type |-> "conversation",
      role |-> msg.inner.role,
      content |-> text_content(msg.inner.content),
      timestamp |-> IF msg.timestamp = NoKey THEN "unknown" ELSE msg.timestamp,
      session |-> session_id,
      message_index |-> i,
      migrated_from |-> "openclaw"]

\* EventIndex counting the lines that produced an event only
EventIndexAmongEmitted(position, emitted) == emitted

\* the index enumerate() gives a line: its position among all the lines
\* read from the log, whatever number of them produced an event
EventIndex(position, emitted) == position

\* the path of line 158
EventPath(session_id, i) ==
  [dir |-> "events", name |-> "openclaw_" \o session_id \o "_" \o ToString(i) \o ".json"]

\* IsActiveSession without the test for ".deleted."
IsJsonlSession(name) == GlobJsonl(name)

\* the filter of lines 113-116
IsActiveSession(name) == GlobJsonl(name) /\ ~Contains(name, ".deleted.")

\* ----------------------------------------------------------- the chunk pass
\* lines 73-76
embedding_list(emb) ==
  IF emb = None \/ emb = "" THEN JList(<<>>)
  ELSE IF json_loads_embedding(emb).ok THEN json_loads_embedding(emb)
  ELSE JList(<<>>)

\* line 78: the row is skipped
SkipsRow(row) == ~Truthy(embedding_list(row.embedding))

\* EntryOf with the time of the migration as the document's timestamp
EntryOfStamped(row) ==
  [id |-> row.id,
   content |-> row.text,
   metadata |-> [source_file |-> row.path,
                 start_line |-> row.start_line,
                 end_line |-> row.end_line,
                 hash |-> row.hash,
                 model |-> row.model,
                 source |-> row.source,
                 migrated_from |-> "openclaw",
                 original_timestamp |-> row.updated_at],
   embedding |-> embedding_list(row.embedding),
   timestamp |-> clock]

\* EntryOf with the two ends of the line range exchanged
EntryOfSwapped(row) ==
  [id |-> row.id,
   content |-> row.text,
   metadata |-> [source_file |-> row.path,
                 start_line |-> row.end_line,
                 end_line |-> row.start_line,
                 hash |-> row.hash,
                 model |-> row.model,
                 source |-> row.source,
                 migrated_from |-> "openclaw",
                 original_timestamp |-> row.updated_at],
   embedding |-> embedding_list(row.embedding),
   timestamp |-> row.updated_at]

\* lines 81-96
EntryOf(row) ==
  [id |-> row.id,
   content |-> row.text,
   metadata |-> [source_file |-> row.path,
                 start_line |-> row.start_line,
                 end_line |-> row.end_line,
                 hash |-> row.hash,
                 model |-> row.model,
                 source |-> row.source,
                 migrated_from |-> "openclaw",
                 original_timestamp |-> row.updated_at],
   embedding |-> embedding_list(row.embedding),
   timestamp |-> row.updated_at]

\* ChunkPath into the events directory
ChunkPathInEvents(chunk_id) == [dir |-> "events", name |-> ToString(chunk_id) \o ".json"]

\* line 98
ChunkPath(chunk_id) == [dir |-> "vector", name |-> ToString(chunk_id) \o ".json"]

\* ORDER BY path, start_line ("a.py" sorts before "b.py")
RowBefore(r, q) ==
  \/ r.path = "a.py" /\ q.path = "b.py"
  \/ r.path = q.path /\ r.start_line < q.start_line

\* ------------------------------------------------------ the personality pass
ConfigTexts == {"{\"name\":\"claw\"}", "{oops"}

\* json.load on the configuration file
json_load_config(text) == IF text = "{\"name\":\"claw\"}" THEN JDict({"name"}) ELSE JErr

PersonalityPath == [dir |-> "memory", name |-> "openclaw_personality.json"]

\* datetime.utcnow().isoformat() + "Z"
UtcNowZ(t) == ToString(t) \o "Z"

\* lines 175-180
PersonalityOf(text, t) ==
  [source |-> "openclaw",
   migrated_at |-> UtcNowZ(t),
   config |-> json_load_config(text),
   notes |-> "Migrated from OpenClaw. Review and integrate into Nexus system prompts."]

\* the order of main()
MainOrder == <<"chunks", "conv", "pers">>

\* a file left by an earlier use of the destination
Stale == [stale |-> TRUE]

\* open(path, 'w') + json.dump
WriteFile(path, doc) ==
  /\ fs' = (path :> doc) @@ fs
  /\ written' = written \cup {path}

\* an exception reaches the top level: the interpreter exits with status 1
Raise ==
  /\ pc' = "failed"
  /\ exit_status' = 1
  /\ UNCHANGED todo

\* a pass returned: main goes on to the next call, or returns
Return ==
  IF todo = <<>>
  THEN pc' = "done" /\ exit_status' = 0 /\ UNCHANGED todo
  ELSE pc' = Head(todo) /\ todo' = Tail(todo) /\ UNCHANGED exit_status

\* ------------------------------------------------------------------ main
Mkdirs ==
  /\ pc = "start"
  /\ dirs' = dirs \cup {"memory", "vector", "events", "graph"}
  /\ Return
  /\ UNCHANGED <<sources, clock, fs, order, run, chunk_locals, conv_locals, written,
                 opened, snap>>

\* --------------------------------------------------- migrate_code_chunks
\* ChunksNoDatabase without the test of lines 52-54: the query raises
ChunksNoDatabaseRaises ==
  /\ pc = "chunks"
  /\ db.state = "absent"
  /\ Raise
  /\ UNCHANGED <<sources, clock, fs, dirs, order, run, chunk_locals, conv_locals,
                 written, opened, snap>>

ChunksNoDatabase ==
  /\ pc = "chunks"
  /\ db.state = "absent"
  /\ migrated_chunks' = 0
  /\ Return
  /\ UNCHANGED <<sources, clock, fs, dirs, order, run, rows_left, migrated, conv_locals,
                 written, opened, snap>>

\* the file exists but holds no table chunks: cursor.execute raises
ChunksNoTable ==
  /\ pc = "chunks"
  /\ db.state = "notable"
  /\ opened' = opened \cup {"main.sqlite"}
  /\ Raise
  /\ UNCHANGED <<sources, clock, fs, dirs, order, run, chunk_locals, conv_locals,
                 written, snap>>

ChunksSelect ==
  /\ pc = "chunks"
  /\ db.state = "ok"
  /\ opened' = opened \cup {"main.sqlite"}
  /\ rows_left' = db.rows
  /\ migrated' = 0
  /\ pc' = "chunk_rows"
  /\ UNCHANGED <<sources, clock, fs, dirs, order, todo, run, migrated_chunks, conv_locals,
                 exit_status, written, snap>>

ChunkRow ==
  /\ pc = "chunk_rows"
  /\ \E row \in rows_left :
       /\ \A q \in rows_left : ~RowBefore(q, row)
       /\ rows_left' = rows_left \ {row}
       /\ IF SkipsRow(row)
          THEN UNCHANGED <<fs, written, migrated, pc, todo, exit_status>>
          ELSE IF ChunkPath(row.id).dir \notin dirs
          THEN Raise /\ UNCHANGED <<fs, written, migrated>>
          ELSE /\ WriteFile(ChunkPath(row.id), EntryOf(row))
               /\ migrated' = migrated + 1
               /\ UNCHANGED <<pc, todo, exit_status>>
  /\ UNCHANGED <<sources, clock, dirs, order, run, migrated_chunks, conv_locals, opened,
                 snap>>

ChunksReturn ==
  /\ pc = "chunk_rows"
  /\ rows_left = {}
  /\ migrated_chunks' = migrated
  /\ Return
  /\ UNCHANGED <<sources, clock, fs, dirs, order, run, rows_left, migrated, conv_locals,
                 written, opened, snap>>

\* -------------------------------------------------- migrate_conversations
ConvNoSessions ==
  /\ pc = "conv"
  /\ ~sessions.exists
  /\ migrated_messages' = 0
  /\ Return
  /\ UNCHANGED <<sources, clock, fs, dirs, order, run, chunk_locals, sess_left,
                 session_file, idx, total_messages, written, opened, snap>>

ConvGlob ==
  /\ pc = "conv"
  /\ sessions.exists
  /\ sess_left' = SelectSeq(sessions.listing, IsActiveSession)
  /\ total_messages' = 0
  /\ pc' = "conv_files"
  /\ UNCHANGED <<sources, clock, fs, dirs, order, todo, run, chunk_locals, session_file,
                 idx, migrated_messages, exit_status, written, opened, snap>>

ConvOpen ==
  /\ pc = "conv_files"
  /\ sess_left # <<>>
  /\ session_file' = Head(sess_left)
  /\ sess_left' = Tail(sess_left)
  /\ opened' = opened \cup {Head(sess_left)}
  /\ idx' = 0
  /\ pc' = "conv_lines"
  /\ UNCHANGED <<sources, clock, fs, dirs, order, todo, run, chunk_locals, total_messages,
                 migrated_messages, exit_status, written, snap>>

ConvLine ==
  /\ pc = "conv_lines"
  /\ idx < Len(sessions.lines[session_file])
  /\ LET line == sessions.lines[session_file][idx + 1]
         session_id == Stem(session_file)
         outcome == LineOutcome(line)
         i == EventIndex(idx, total_messages)
     IN /\ idx' = idx + 1
        /\ IF outcome = "skip"
           THEN UNCHANGED <<fs, written, total_messages, pc, todo, exit_status>>
           ELSE IF outcome = "raise" \/ EventPath(session_id, i).dir \notin dirs
           THEN Raise /\ UNCHANGED <<fs, written, total_messages>>
           ELSE /\ WriteFile(EventPath(session_id, i), EventOf(line, session_id, i))
                /\ total_messages' = total_messages + 1
                /\ UNCHANGED <<pc, todo, exit_status>>
  /\ UNCHANGED <<sources, clock, dirs, order, run, chunk_locals, sess_left, session_file,
                 migrated_messages, opened, snap>>

ConvEndOfFile ==
  /\ pc = "conv_lines"
  /\ idx = Len(sessions.lines[session_file])
  /\ pc' = "conv_files"
  /\ UNCHANGED <<sources, clock, fs, dirs, order, todo, run, chunk_locals, conv_locals,
                 exit_status, written, opened, snap>>

ConvReturn ==
  /\ pc = "conv_files"
  /\ sess_left = <<>>
  /\ migrated_messages' = total_messages
  /\ Return
  /\ UNCHANGED <<sources, clock, fs, dirs, order, run, chunk_locals, sess_left,
                 session_file, idx, total_messages, written, opened, snap>>

\* ---------------------------------------------------- extract_personality
PersNoConfig ==
  /\ pc = "pers"
  /\ ~config.exists
  /\ Return
  /\ UNCHANGED <<sources, clock, fs, dirs, order, run, chunk_locals, conv_locals, written,
                 opened, snap>>

\* PersMalformed with the destination opened for writing before the parse
PersMalformedTruncates ==
  /\ pc = "pers"
  /\ config.exists
  /\ ~json_load_config(config.text).ok
  /\ opened' = opened \cup {"openclaw.json"}
  /\ WriteFile(PersonalityPath, [empty |-> TRUE])
  /\ Raise
  /\ UNCHANGED <<sources, clock, dirs, order, run, chunk_locals, conv_locals, snap>>

\* json.load raises before the destination is opened
PersMalformed ==
  /\ pc = "pers"
  /\ config.exists
  /\ ~json_load_config(config.text).ok
  /\ opened' = opened \cup {"openclaw.json"}
  /\ Raise
  /\ UNCHANGED <<sources, clock, fs, dirs, order, run, chunk_locals, conv_locals, written,
                 snap>>

PersWrite ==
  /\ pc = "pers"
  /\ config.exists
  /\ json_load_config(config.text).ok
  /\ opened' = opened \cup {"openclaw.json"}
  /\ IF PersonalityPath.dir \notin dirs
     THEN Raise /\ UNCHANGED <<fs, written>>
     ELSE WriteFile(PersonalityPath, PersonalityOf(config.text, clock)) /\ Return
  /\ UNCHANGED <<sources, clock, dirs, order, run, chunk_locals, conv_locals, snap>>

\* ------------------------------------------------------- the tool run again
\* the process has exited; the tool is started again on the same sources,
\* at a later time
RunAgain ==
  /\ pc \in {"done", "failed"}
  /\ run < MaxRuns
  /\ run' = run + 1
  /\ clock' = clock + 1
  /\ snap' = fs
  /\ pc' = "start"
  /\ todo' = order
  /\ exit_status' = -1
  /\ rows_left' = {}
  /\ migrated' = 0
  /\ migrated_chunks' = -1
  /\ sess_left' = <<>>
  /\ session_file' = ""
  /\ idx' = 0
  /\ total_messages' = 0
  /\ migrated_messages' = -1
  /\ written' = {}
  /\ opened' = {}
  /\ UNCHANGED <<sources, fs, dirs, order>>

Next ==
  \/ Mkdirs
  \/ ChunksNoDatabase \/ ChunksNoTable \/ ChunksSelect \/ ChunkRow \/ ChunksReturn
  \/ ConvNoSessions \/ ConvGlob \/ ConvOpen \/ ConvLine \/ ConvEndOfFile \/ ConvReturn
  \/ PersNoConfig \/ PersMalformed \/ PersWrite
  \/ RunAgain

\* ------------------------------------------------------------ initial states
DbAbsent == [state |-> "absent", rows |-> {}]
DbNoTable == [state |-> "notable", rows |-> {}]
DbOk(rows) == [state |-> "ok", rows |-> rows]

AllDbs == {DbAbsent, DbNoTable} \cup {DbOk(rs) : rs \in RowSets}

FewDbs ==
  {DbAbsent, DbNoTable,
   DbOk({ChunkRowOf(1, 2, "[1,2]"), ChunkRowOf(2, 1, "oops")}),
   DbOk({ChunkRowOf(1, 1, "7"), ChunkRowOf(2, 1, "[3]")})}

\* the names a sessions directory may hold, in the order the directory
\* lists them
Listings ==
  {<<"s1.jsonl", "s1.deleted.jsonl", "s2.jsonl">>,
   <<"s2.jsonl", "s1.jsonl.deleted.99", "s1.jsonl">>,
   <<"s1.txt", "deleted.jsonl", "s1.jsonl">>}

Range(f) == {f[i] : i \in DOMAIN f}

\* a sessions directory: s1.jsonl holds the lines s1, every other file a
\* fixed log with a message in it
SessDir(listing, s1) ==
  [exists |-> TRUE,
   listing |-> listing,
   lines |-> [n \in Range(listing) |->
                IF n = "s1.jsonl" THEN s1
                ELSE IF n = "s2.jsonl" THEN <<L_ping, L_parts>>
                ELSE <<L_hi>>]]

NoSessions == [exists |-> FALSE, listing |-> <<>>, lines |-> <<>>]

SeqsUpTo(S, n) == UNION {[1..m -> S] : m \in 0..n}

AllSessions ==
  {NoSessions} \cup {SessDir(l, s1) : l \in Listings, s1 \in SeqsUpTo(LineTexts, MaxLines)}

FewSessions ==
  {NoSessions,
   SessDir(<<"s1.jsonl", "s1.deleted.jsonl", "s2.jsonl">>, <<L_garbage, L_hi>>),
   SessDir(<<"s2.jsonl", "s1.jsonl.deleted.99", "s1.jsonl">>, <<L_parts, L_number>>),
   SessDir(<<"s1.txt", "deleted.jsonl", "s1.jsonl">>, <<L_strmsg, L_hi>>)}

NoConfig == [exists |-> FALSE, text |-> ""]

AllConfigs == {NoConfig} \cup {[exists |-> TRUE, text |-> t] : t \in ConfigTexts}

\* the destination before the first run: nothing, or the directories with
\* files of an earlier use in them
EmptyFs == <<>>

StaleFs ==
  (PersonalityPath :> Stale) @@ (ChunkPath(1) :> Stale) @@ (EventPath("s1", 0) :> Stale)
  @@ ([dir |-> "vector", name |-> "old.json"] :> Stale)

Perms(S) == {f \in [1..Cardinality(S) -> S] : \A i, j \in DOMAIN f : i # j => f[i] # f[j]}

\* every selection of passes, in every order
AllOrders == UNION {Perms(S) : S \in SUBSET {"chunks", "conv", "pers"}}

InitFrom(Dbs, Sess, Configs, Orders) ==
  /\ db \in Dbs
  /\ sessions \in Sess
  /\ config \in Configs
  /\ clock = 1
  /\ fs \in {EmptyFs, StaleFs}
  /\ dirs = {p.dir : p \in DOMAIN fs}
  /\ pc = "start"
  /\ order \in Orders
  /\ todo = order
  /\ run = 1
  /\ rows_left = {}
  /\ migrated = 0
  /\ migrated_chunks = -1
  /\ sess_left = <<>>
  /\ session_file = ""
  /\ idx = 0
  /\ total_messages = 0
  /\ migrated_messages = -1
  /\ exit_status = -1
  /\ written = {}
  /\ opened = {}
  /\ snap = fs

\* main() on a few sources of every kind
Init == InitFrom(FewDbs, FewSessions, AllConfigs, {MainOrder})

Spec == Init /\ [][Next]_vars

\* main() on every database
InitChunks == Init \/ InitFrom(AllDbs, {NoSessions}, {NoConfig}, {MainOrder})

SpecChunks == InitChunks /\ [][Next]_vars

\* main() on every sessions directory
InitConv == Init \/ InitFrom({DbAbsent}, AllSessions, {NoConfig}, {MainOrder})

SpecConv == InitConv /\ [][Next]_vars

\* the passes called in any order, any of them left out
InitOrder == InitFrom(FewDbs, FewSessions, AllConfigs, AllOrders)

SpecOrder == InitOrder /\ [][Next]_vars

\* ------------------------------------------------------------------ claims
\* migrate_code_chunks has returned in this run
ChunksReturned == migrated_chunks >= 0

\* migrate_conversations has returned in this run
ConvReturned == migrated_messages >= 0

\* the process has exited
Exited == pc \in {"done", "failed"}

\* the row's embedding column is the JSON text of a non-empty array
HasVector(row) ==
  /\ row.embedding \notin {None, ""}
  /\ json_loads_embedding(row.embedding).k = "list"
  /\ Len(json_loads_embedding(row.embedding).list) > 0

\* the chunk documents of the destination that carry the identifier id
DocsOfChunk(id) ==
  {p \in DOMAIN fs : p.dir = "vector" /\ "id" \in DOMAIN fs[p] /\ fs[p].id = id}

\* C1: once migrate_code_chunks has returned, every row whose embedding is
\* the JSON text of a non-empty array has exactly one document, the file
\* vector/<id>.json, and the document's id, content, embedding, timestamp
\* and metadata are the row's columns (the embedding deserialized).
C1_ChunkDocuments ==
  ChunksReturned =>
    \A row \in db.rows :
      HasVector(row) =>
        LET p == [dir |-> "vector", name |-> ToString(row.id) \o ".json"]
        IN /\ DocsOfChunk(row.id) = {p}
           /\ fs[p].id = row.id
           /\ fs[p].content = row.text
           /\ fs[p].embedding = json_loads_embedding(row.embedding)
           /\ fs[p].timestamp = row.updated_at
           /\ fs[p].metadata.source_file = row.path
           /\ fs[p].metadata.start_line = row.start_line
           /\ fs[p].metadata.end_line = row.end_line
           /\ fs[p].metadata.hash = row.hash
           /\ fs[p].metadata.model = row.model
           /\ fs[p].metadata.source = row.source
           /\ fs[p].metadata.original_timestamp = row.updated_at

\* a run ended with two rows of different columns migrated next to a row
\* that has no vector
C1_Witness ==
  /\ pc = "done"
  /\ migrated_chunks = 2
  /\ \E r, q \in db.rows : HasVector(r) /\ HasVector(q) /\ r.path # q.path

\* C2: a chunk file is written, and counted, only for a row whose embedding
\* is the JSON text of a non-empty array; any other row writes nothing.
C2_OnlyVectorsWritten ==
  /\ \A row \in db.rows :
       [dir |-> "vector", name |-> ToString(row.id) \o ".json"] \in written
         => HasVector(row)
  /\ ChunksReturned => migrated_chunks = Cardinality({row \in db.rows : HasVector(row)})

\* the line is a JSON object of type "message" whose "message" is an object
\* with the keys role and content
Qualifies(line) ==
  LET msg == json_loads_line(line)
  IN /\ msg.ok
     /\ msg.k = "dict"
     /\ msg.type = "message"
     /\ "message" \in msg.keys
     /\ msg.inner.k = "dict"
     /\ {"role", "content"} \subseteq msg.inner.keys

\* the names of the directory that end in ".jsonl" and hold no ".deleted."
ActiveNames ==
  {n \in Range(sessions.listing) : EndsWith(n, ".jsonl") /\ ~Contains(n, ".deleted.")}

\* the file name of the event of the line at position i of log n
EventName(n, i) == "openclaw_" \o Stem(n) \o "_" \o ToString(i) \o ".json"

EventsWritten == {p \in written : p.dir = "events"}

\* migrate_conversations was called in this run (main calls it second)
ConvCalled == pc \notin {"start", "chunks", "chunk_rows"} /\ db.state # "notable"

\* C3: when the run has ended, every line of every active log has an event
\* if and only if it qualifies, and no line made migrate_conversations raise.
C3_EventIffQualifies ==
  (Exited /\ ConvCalled /\ sessions.exists) =>
    /\ ConvReturned
    /\ \A n \in ActiveNames :
         \A i \in 1..Len(sessions.lines[n]) :
           [dir |-> "events", name |-> EventName(n, i - 1)] \in written
             <=> Qualifies(sessions.lines[n][i])

\* C7: every event written is the event of one line of an opened log: its
\* file name and message_index give the zero-based position of that line
\* among all lines of the log, and each counted message has a file of its own.
C7_IndexIsLinePosition ==
  /\ \A p \in EventsWritten :
       \E n \in opened \cap Range(sessions.listing) :
         \E i \in 0..(Len(sessions.lines[n]) - 1) :
           /\ p.name = EventName(n, i)
           /\ fs[p].message_index = i
           /\ fs[p].session = Stem(n)
           /\ Qualifies(sessions.lines[n][i + 1])
           /\ fs[p].role = json_loads_line(sessions.lines[n][i + 1]).inner.role
  /\ Cardinality(EventsWritten) = total_messages

\* the only event of s1.jsonl is the event of its second line
C7_Witness ==
  /\ ConvReturned
  /\ \E p \in EventsWritten : fs[p].session = "s1" /\ fs[p].message_index = 1
  /\ ~\E p \in EventsWritten : fs[p].session = "s1" /\ fs[p].message_index = 0

\* C8: no file is opened whose name holds ".deleted." or does not end in
\* ".jsonl", no event has the stem of a ".deleted." file as its session, and
\* the returned total is the number of qualifying lines of the other logs.
C8_DeletedNeverRead ==
  /\ \A n \in opened \cap Range(sessions.listing) :
       EndsWith(n, ".jsonl") /\ ~Contains(n, ".deleted.")
  /\ \A p \in EventsWritten :
       \A n \in Range(sessions.listing) :
         Contains(n, ".deleted.") => fs[p].session # Stem(n)
  /\ ConvReturned =>
       migrated_messages =
         Cardinality(UNION {{<<n, i>> : i \in {j \in DOMAIN sessions.lines[n] :
                                                  Qualifies(sessions.lines[n][j])}} :
                            n \in ActiveNames})

\* the pass returned a positive total from a directory that holds a
\* ".deleted." log with a message in it
C8_Witness ==
  /\ ConvReturned
  /\ migrated_messages > 0
  /\ \E n \in Range(sessions.listing) :
       Contains(n, ".deleted.") /\ Qualifies(sessions.lines[n][1])

\* the text of a list of parts: the text fields of the parts that are
\* objects of type "text", in order, one space between neighbours (a text
\* part without a text field counts as the empty text)
C9_Joined(parts) ==
  LET keep == {i \in 1..Len(parts) : parts[i].k = "dict" /\ parts[i].type = "text"}
      upto[i \in 0..Len(parts)] ==
        IF i = 0 THEN ""
        ELSE IF i \notin keep THEN upto[i - 1]
        ELSE IF \E j \in keep : j < i
        THEN upto[i - 1] \o " " \o (IF parts[i].hasText THEN parts[i].text ELSE "")
        ELSE IF parts[i].hasText THEN parts[i].text ELSE ""
  IN upto[Len(parts)]

\* the line an event was written for
LineOfEvent(p) ==
  LET n == CHOOSE n \in ActiveNames : Stem(n) = fs[p].session
  IN sessions.lines[n][fs[p].message_index + 1]

\* C9: the content of every event written is, for list content, the
\* space-joined text of its text parts, and otherwise the content as text;
\* the list [text a, other, text b] gives "a b".
C9_ContentText ==
  \A p \in EventsWritten :
    LET c == json_loads_line(LineOfEvent(p)).inner.content
    IN /\ c.k = "list" => fs[p].content = C9_Joined(c.parts)
       /\ c.k = "str" => fs[p].content = c.str
       /\ c.k = "num" => fs[p].content = ToString(c.num)
       /\ LineOfEvent(p) = L_parts => fs[p].content = "a b"

\* events of list content and of scalar content have been written
C9_Witness ==
  /\ ConvReturned
  /\ \E p \in EventsWritten : LineOfEvent(p) = L_parts /\ fs[p].content = "a b"
  /\ \E p \in EventsWritten : LineOfEvent(p) = L_mixed
  /\ \E p \in EventsWritten : LineOfEvent(p) = L_num /\ fs[p].content = "5"

\* the destination files of the chunk pass and of the conversation pass
PassFiles(f) == {p \in DOMAIN f : p.dir \in {"vector", "events"}}

\* C4: when the tool has run again on unchanged sources, the files under
\* vector/ and events/ are the same files with the same contents as the run
\* before left them, and the personality file differs in migrated_at at most.
C4_SecondRunIdentical ==
  (Exited /\ run >= 2) =>
    /\ PassFiles(fs) = PassFiles(snap)
    /\ \A p \in PassFiles(fs) : fs[p] = snap[p]
    /\ PersonalityPath \in DOMAIN fs <=> PersonalityPath \in DOMAIN snap
    /\ PersonalityPath \in DOMAIN fs =>
         IF "migrated_at" \in DOMAIN fs[PersonalityPath]
         THEN /\ "migrated_at" \in DOMAIN snap[PersonalityPath]
              /\ fs[PersonalityPath].source = snap[PersonalityPath].source
              /\ fs[PersonalityPath].config = snap[PersonalityPath].config
              /\ fs[PersonalityPath].notes = snap[PersonalityPath].notes
         ELSE fs[PersonalityPath] = snap[PersonalityPath]

\* a second run that completed rewrote chunk, event and personality files
C4_Witness ==
  /\ pc = "done"
  /\ run = 2
  /\ \E p \in written : p.dir = "vector"
  /\ \E p \in written : p.dir = "events"
  /\ PersonalityPath \in written
  /\ fs[PersonalityPath].migrated_at # snap[PersonalityPath].migrated_at

\* the lines of the model that make the loop body raise
RaisingLines == {L_number, L_strmsg, L_badtext}

\* C5: an absent source gives a zero count (no personality file written) and
\* no write of its pass; the passes after it still run; and a run exits with
\* a failure only for a fault in a source that is present.
C5_MissingSourceSkipped ==
  /\ (db.state = "absent" /\ pc \notin {"start", "chunks"}) =>
       /\ migrated_chunks = 0
       /\ \A p \in written : p.dir # "vector"
  /\ ~sessions.exists =>
       /\ EventsWritten = {}
       /\ pc \in {"pers", "done"} => migrated_messages = 0
  /\ ~config.exists => PersonalityPath \notin written
  /\ (Exited /\ db.state = "absent" /\ sessions.exists) => ActiveNames \cap opened # {}
  /\ (Exited /\ db.state = "absent" /\ ~sessions.exists /\ config.exists) =>
       "openclaw.json" \in opened
  /\ (Exited /\ exit_status # 0) =>
       \/ db.state = "notable"
       \/ /\ sessions.exists
          /\ \E n \in opened \cap ActiveNames : Range(sessions.lines[n]) \cap RaisingLines # {}
       \/ config.exists /\ config.text = "{oops"

\* a run with none of the three sources completed
C5_Witness ==
  /\ pc = "done"
  /\ exit_status = 0
  /\ db.state = "absent"
  /\ ~sessions.exists
  /\ ~config.exists

\* C6: with a configuration file that is no JSON, the personality file is
\* never opened for writing and stays as it was, the run does not complete,
\* and it exits with status 1.
C6_MalformedConfigFatal ==
  (config.exists /\ config.text = "{oops") =>
    /\ PersonalityPath \notin written
    /\ PersonalityPath \in DOMAIN fs <=> PersonalityPath \in DOMAIN snap
    /\ PersonalityPath \in DOMAIN fs => fs[PersonalityPath] = snap[PersonalityPath]
    /\ pc # "done"
    /\ Exited => exit_status = 1

\* extract_personality raised on the malformed file, next to an older
\* personality file
C6_Witness ==
  /\ pc = "failed"
  /\ config.text = "{oops"
  /\ "openclaw.json" \in opened
  /\ PersonalityPath \in DOMAIN fs

\* the directory the running pass writes into
OwnDir ==
  CASE pc \in {"chunks", "chunk_rows"} -> "vector"
    [] pc \in {"conv", "conv_files", "conv_lines"} -> "events"
    [] pc = "pers" -> "memory"
    [] OTHER -> "none"

\* a step of a pass changes files of its own directory only, deletes
\* nothing, writes nothing under graph/ and leaves the sources alone
C10_Frame ==
  /\ pc' # "start" =>
       /\ DOMAIN fs \subseteq DOMAIN fs'
       /\ \A p \in DOMAIN fs' :
            (p.dir # OwnDir \/ (pc = "pers" /\ p # PersonalityPath)) =>
              p \in DOMAIN fs /\ fs'[p] = fs[p]
       /\ \A p \in DOMAIN fs' : p.dir # "graph"
  /\ sources' = sources

\* the destination and the counts of a completed run, from the sources and
\* the set of the passes called alone
C10_Final ==
  pc = "done" =>
    LET called == Range(order)
        rows == {row \in db.rows : ~SkipsRow(row)}
        lines == UNION {{<<n, i>> : i \in {j \in 0..(Len(sessions.lines[n]) - 1) :
                                             LineOutcome(sessions.lines[n][j + 1]) = "emit"}} :
                          n \in {m \in Range(sessions.listing) : IsActiveSession(m)}}
    IN /\ DOMAIN snap \subseteq DOMAIN fs
       /\ \A p \in DOMAIN fs :
            CASE "chunks" \in called /\ \E row \in rows : p = ChunkPath(row.id) ->
                   \E row \in rows : p = ChunkPath(row.id) /\ fs[p] = EntryOf(row)
              [] "conv" \in called /\ sessions.exists
                 /\ \E x \in lines : p = EventPath(Stem(x[1]), x[2]) ->
                   \E x \in lines :
                     /\ p = EventPath(Stem(x[1]), x[2])
                     /\ fs[p] = EventOf(sessions.lines[x[1]][x[2] + 1], Stem(x[1]), x[2])
              [] "pers" \in called /\ config.exists /\ p = PersonalityPath ->
                   \E t \in 1..MaxRuns : fs[p] = PersonalityOf(config.text, t)
              [] OTHER -> p \in DOMAIN snap /\ fs[p] = snap[p]
       /\ "chunks" \in called => \A row \in rows : ChunkPath(row.id) \in DOMAIN fs
       /\ migrated_chunks = IF "chunks" \in called /\ db.state = "ok"
                            THEN Cardinality(rows)
                            ELSE IF "chunks" \in called THEN 0 ELSE -1
       /\ "conv" \in called /\ sessions.exists =>
            \A x \in lines : EventPath(Stem(x[1]), x[2]) \in DOMAIN fs
       /\ migrated_messages = IF "conv" \in called /\ sessions.exists
                              THEN Cardinality(lines)
                              ELSE IF "conv" \in called THEN 0 ELSE -1

\* C10: each pass changes only the files of its own destination, nothing is
\* deleted, graph/ stays empty, the sources stay as they are, and a run that
\* completes leaves the same files and counts whatever the order of the
\* passes called.
C10_PassesIndependent == [][C10_Frame]_vars /\ []C10_Final

\* a run that called the three passes in an order other than main's completed
\* with files of all three written
C10_Witness ==
  /\ pc = "done"
  /\ order = <<"pers", "conv", "chunks">>
  /\ \E p \in written : p.dir = "vector"
  /\ \E p \in written : p.dir = "events"
  /\ PersonalityPath \in written

====
